---- MODULE Spec2Model ----
(***************************************************************************)
(* Model of filter_pdb_by_residues (src/filter_pdb.py).                    *)
(*                                                                         *)
(* A line is a TLA+ string holding the raw text of the record, newline     *)
(* included, exactly as f.readlines() returns it.  Python's 0-indexed      *)
(* half-open slices, str.startswith, str.strip, int() and the format       *)
(* specs {n:>5} / {n:>4} are modelled character by character.              *)
(***************************************************************************)
EXTENDS Integers, Sequences, FiniteSets, TLC

VARIABLES pdb_lines, target_residues, renumber, output_lines, in_model,
          model_atoms, original_residues, model_count, pc, error,
          output_file, log_file

vars == <<pdb_lines, target_residues, renumber, output_lines, in_model,
          model_atoms, original_residues, model_count, pc, error,
          output_file, log_file>>

(***************************************************************************)
(* Bounds of the explored input space.                                     *)
(***************************************************************************)
\* lines per file
MaxLen == 6
\* lines per file, for a file holding a record outside CoreLines
MaxShort == 4
\* records outside CoreLines per file
MaxExtra == 1

(***************************************************************************)
(* Python string primitives.                                               *)
(***************************************************************************)
Min(a, b) == IF a < b THEN a ELSE b

\* s[a:b] for 0 <= a <= b, clamped to the length of s as Python does
Slice(s, a, b) == SubSeq(s, Min(a, Len(s)) + 1, Min(b, Len(s)))

\* s[a:]
SliceFrom(s, a) == SubSeq(s, Min(a, Len(s)) + 1, Len(s))

\* s.startswith(p)
StartsWith(s, p) == Len(s) >= Len(p) /\ SubSeq(s, 1, Len(p)) = p

IsSpace(c) == c \in {" ", "\n", "\t", "\r"}

RECURSIVE LStrip(_)
LStrip(s) ==
    IF Len(s) > 0 /\ IsSpace(SubSeq(s, 1, 1))
    THEN LStrip(SubSeq(s, 2, Len(s)))
    ELSE s

RECURSIVE RStrip(_)
RStrip(s) ==
    IF Len(s) > 0 /\ IsSpace(SubSeq(s, Len(s), Len(s)))
    THEN RStrip(SubSeq(s, 1, Len(s) - 1))
    ELSE s

\* s.strip()
Strip(s) == RStrip(LStrip(s))

Digits == <<"0", "1", "2", "3", "4", "5", "6", "7", "8", "9">>

IsDigit(c) == \E d \in 1..10 : Digits[d] = c

DigitVal(c) == (CHOOSE d \in 1..10 : Digits[d] = c) - 1

AllDigits(s) == Len(s) > 0 /\ \A k \in 1..Len(s) : IsDigit(SubSeq(s, k, k))

RECURSIVE DigitsVal(_)
DigitsVal(s) ==
    IF Len(s) = 0 THEN 0
    ELSE 10 * DigitsVal(SubSeq(s, 1, Len(s) - 1))
         + DigitVal(SubSeq(s, Len(s), Len(s)))

\* int(s) succeeds: optional sign followed by decimal digits
IntOk(s) ==
    IF Len(s) > 0 /\ SubSeq(s, 1, 1) \in {"-", "+"}
    THEN AllDigits(SubSeq(s, 2, Len(s)))
    ELSE AllDigits(s)

\* int(s) where it succeeds
IntOf(s) ==
    IF SubSeq(s, 1, 1) = "-" THEN 0 - DigitsVal(SubSeq(s, 2, Len(s)))
    ELSE IF SubSeq(s, 1, 1) = "+" THEN DigitsVal(SubSeq(s, 2, Len(s)))
    ELSE DigitsVal(s)

RECURSIVE NatStr(_)
NatStr(n) ==
    IF n < 10 THEN Digits[n + 1]
    ELSE NatStr(n \div 10) \o Digits[(n % 10) + 1]

\* str(n)
Str(n) == IF n < 0 THEN "-" \o NatStr(0 - n) ELSE NatStr(n)

RECURSIVE PadLeft(_, _)
PadLeft(s, w) == IF Len(s) >= w THEN s ELSE PadLeft(" " \o s, w)

\* f"{n:>w}": right-justified in AT LEAST w columns, never truncated
FormatInt(n, w) == PadLeft(Str(n), w)

(***************************************************************************)
(* Line classification (the prefix tests of the main loop).                *)
(***************************************************************************)
\* forgets the REMARK tag
IsPreamble_NoRemark(line) ==
    \/ StartsWith(line, "TITLE")
    \/ StartsWith(line, "CRYST1")

IsPreamble(line) ==
    \/ StartsWith(line, "REMARK")
    \/ StartsWith(line, "TITLE")
    \/ StartsWith(line, "CRYST1")

IsModelStart(line) == StartsWith(line, "MODEL")

IsModelEnd(line) == StartsWith(line, "ENDMDL")

IsAtomOrTer(line) == StartsWith(line, "ATOM") \/ StartsWith(line, "TER")

(***************************************************************************)
(* The finalizer run at ENDMDL.                                            *)
(***************************************************************************)
None == {}
Some(S) == {S}

\* forgets the atom-name test
IsCA_AnyAtom(atom_line) == StartsWith(atom_line, "ATOM")

\* atom_line.startswith('ATOM') and atom_line[12:16].strip() == 'CA'
IsCA(atom_line) ==
    StartsWith(atom_line, "ATOM") /\ Strip(Slice(atom_line, 12, 16)) = "CA"

ResidueField(atom_line) == Strip(Slice(atom_line, 22, 26))

\* int(atom_line[22:26].strip())
ResidueNum(atom_line) == IntOf(ResidueField(atom_line))

\* forgets the membership test
Keep_All(residue_num, target) == TRUE

\* target_residues is None or residue_num in target_residues
Keep(residue_num, target) ==
    target = None \/ \E S \in target : residue_num \in S

\* the selection loop raises ValueError at the first CA atom whose residue
\* field is not an integer (int() runs before the membership test)
SelectRaises(atoms) ==
    \E k \in 1..Len(atoms) : IsCA(atoms[k]) /\ ~IntOk(ResidueField(atoms[k]))

RECURSIVE SelectCA(_, _)
SelectCA(atoms, target) ==
    IF atoms = <<>> THEN <<>>
    ELSE IF IsCA(Head(atoms)) /\ Keep(ResidueNum(Head(atoms)), target)
         THEN <<Head(atoms)>> \o SelectCA(Tail(atoms), target)
         ELSE SelectCA(Tail(atoms), target)

ResiduesOf(ca_atoms) == [k \in 1..Len(ca_atoms) |-> ResidueNum(ca_atoms[k])]

\* list.index(x): 0-based position of the first occurrence
RECURSIVE IndexOf(_, _)
IndexOf(list, x) ==
    IF Head(list) = x THEN 0 ELSE 1 + IndexOf(Tail(list), x)

InList(list, x) == \E k \in 1..Len(list) : list[k] = x

\* forgets the + 1 after list.index
NewResidueNum_ZeroBased(orig, renum, orig_residues) ==
    IF renum THEN IndexOf(orig_residues, orig) ELSE orig

NewResidueNum(orig, renum, orig_residues) ==
    IF renum THEN IndexOf(orig_residues, orig) + 1 ELSE orig

RewriteLine(atom_line, atom_counter, renum, orig_residues) ==
    IF StartsWith(atom_line, "ATOM")
    THEN LET new_line == Slice(atom_line, 0, 6) \o FormatInt(atom_counter, 5)
                         \o SliceFrom(atom_line, 11)
             new_residue_num ==
                 NewResidueNum(ResidueNum(atom_line), renum, orig_residues)
         IN  Slice(new_line, 0, 22) \o FormatInt(new_residue_num, 4)
             \o SliceFrom(new_line, 26)
    ELSE atom_line

RECURSIVE Rewrite(_, _, _, _)
Rewrite(ca_atoms, atom_counter, renum, orig_residues) ==
    IF ca_atoms = <<>> THEN <<>>
    ELSE <<RewriteLine(Head(ca_atoms), atom_counter, renum, orig_residues)>>
         \o Rewrite(Tail(ca_atoms), atom_counter + 1, renum, orig_residues)

\* the renumbering loop raises ValueError from list.index
\* looks every residue up even when renumbering is off
LookupRaises_AnyMode(ca_atoms, renum, orig_residues) ==
    \E k \in 1..Len(ca_atoms) :
        ~InList(orig_residues, ResidueNum(ca_atoms[k]))

LookupRaises(ca_atoms, renum, orig_residues) ==
    renum /\ \E k \in 1..Len(ca_atoms) :
                 ~InList(orig_residues, ResidueNum(ca_atoms[k]))

\* leaves the chain identifier out of the TER record
TerLine_NoChain(atom_counter, last_atom) ==
    "TER   " \o FormatInt(atom_counter, 5) \o "      "
    \o Slice(last_atom, 17, 20) \o "  " \o Slice(last_atom, 22, 26) \o "\n"

TerLine(atom_counter, last_atom) ==
    "TER   " \o FormatInt(atom_counter, 5) \o "      "
    \o Slice(last_atom, 17, 20) \o " " \o Slice(last_atom, 21, 26) \o "\n"

\* gives the TER record the serial number of the last atom
WithTer_SameSerial(filtered_atoms) ==
    IF filtered_atoms # <<>>
       /\ StartsWith(filtered_atoms[Len(filtered_atoms)], "ATOM")
    THEN Append(filtered_atoms,
                TerLine(Len(filtered_atoms),
                        filtered_atoms[Len(filtered_atoms)]))
    ELSE filtered_atoms

WithTer(filtered_atoms) ==
    IF filtered_atoms # <<>>
       /\ StartsWith(filtered_atoms[Len(filtered_atoms)], "ATOM")
    THEN Append(filtered_atoms,
                TerLine(Len(filtered_atoms) + 1,
                        filtered_atoms[Len(filtered_atoms)]))
    ELSE filtered_atoms

\* captures the residue order at every model
Captured_EveryModel(atoms, target, count, orig_residues) ==
    ResiduesOf(SelectCA(atoms, target))

\* original_residues as it stands after the model_count == 1 test
Captured(atoms, target, count, orig_residues) ==
    IF count = 1 THEN ResiduesOf(SelectCA(atoms, target)) ELSE orig_residues

\* filtered_atoms, TER included, for one ENDMDL
Finalize(atoms, target, renum, orig_residues) ==
    WithTer(Rewrite(SelectCA(atoms, target), 1, renum, orig_residues))

(***************************************************************************)
(* Input lines.                                                            *)
(***************************************************************************)
L_MODEL  == "MODEL        1\n"
L_ENDMDL == "ENDMDL\n"
L_CA10   == "ATOM      7  CA  ALA A  10       1.000\n"
L_CA20   == "ATOM     12  CA  GLY A  20       2.000\n"
L_N10    == "ATOM      6  N   ALA A  10       0.500\n"
L_SHORT  == "ATOM      9  CA  SER A10\n"
L_BAD    == "ATOM     11  CA  ALA A  1A       3.000\n"
L_TER    == "TER      13      GLY A  20\n"
L_REMARK == "REMARK   1 TEST\n"
L_END    == "END\n"

CoreLines == {L_MODEL, L_ENDMDL, L_CA10, L_CA20}
ExtraLines == {L_N10, L_SHORT, L_BAD, L_TER, L_REMARK, L_END}
Lines == CoreLines \cup ExtraLines

Targets == {None, Some({10})}

Unwritten == [written |-> FALSE, lines |-> <<>>]
Written(ls) == [written |-> TRUE, lines |-> ls]

(***************************************************************************)
(* State machine.  pdb_lines holds the lines of the input file the loop    *)
(* has taken so far; each iteration of the loop is one step whose line is  *)
(* drawn from Lines, and the end of the file may come after any line.      *)
(***************************************************************************)
Init ==
    /\ pdb_lines = <<>>
    /\ target_residues \in Targets
    /\ renumber \in BOOLEAN
    /\ output_lines = <<>>
    /\ in_model = FALSE
    /\ model_atoms = <<>>
    /\ original_residues = <<>>
    /\ model_count = 0
    /\ pc = "loop"
    /\ error = "none"
    /\ output_file = Unwritten
    /\ log_file = Unwritten

settings == <<target_residues, renumber>>
files == <<output_file, log_file>>

ExtraCount(ls) == Cardinality({k \in 1..Len(ls) : ls[k] \in ExtraLines})

\* the loop takes the next line of the file
Take(line) ==
    /\ pc = "loop"
    /\ Len(pdb_lines) < MaxLen
    /\ (line \in ExtraLines \/ ExtraCount(pdb_lines) > 0) =>
           Len(pdb_lines) < MaxShort
    /\ line \in ExtraLines => ExtraCount(pdb_lines) < MaxExtra
    /\ pdb_lines' = Append(pdb_lines, line)

\* lines 24-25
SkipPreamble(line) ==
    /\ Take(line) /\ IsPreamble(line)
    /\ UNCHANGED <<settings, files, output_lines, in_model, model_atoms,
                   original_residues, model_count, pc, error>>

\* lines 27-32
ModelStart(line) ==
    /\ Take(line) /\ ~IsPreamble(line) /\ IsModelStart(line)
    /\ in_model' = TRUE
    /\ model_atoms' = <<>>
    /\ model_count' = model_count + 1
    /\ output_lines' = Append(output_lines, line)
    /\ UNCHANGED <<settings, files, original_residues, pc, error>>

AtModelEnd(line) ==
    Take(line) /\ ~IsPreamble(line) /\ ~IsModelStart(line) /\ IsModelEnd(line)

\* lines 33-92, no exception
ModelEnd(line) ==
    /\ AtModelEnd(line)
    /\ ~SelectRaises(model_atoms)
    /\ LET orig == Captured(model_atoms, target_residues, model_count,
                            original_residues)
       IN  /\ ~LookupRaises(SelectCA(model_atoms, target_residues),
                            renumber, orig)
           /\ original_residues' = orig
           /\ output_lines' =
                  Append(output_lines
                         \o Finalize(model_atoms, target_residues,
                                     renumber, orig),
                         line)
    /\ in_model' = FALSE
    /\ UNCHANGED <<settings, files, model_atoms, model_count, pc, error>>

\* line 43 raises ValueError: the function is left before any file is opened
ModelEndParseError(line) ==
    /\ AtModelEnd(line)
    /\ SelectRaises(model_atoms)
    /\ in_model' = FALSE
    /\ pc' = "aborted"
    /\ error' = "parse"
    /\ UNCHANGED <<settings, files, output_lines, model_atoms,
                   original_residues, model_count>>

\* writes what was assembled so far before leaving
ModelEndLookupError_Partial(line) ==
    /\ AtModelEnd(line)
    /\ ~SelectRaises(model_atoms)
    /\ LET orig == Captured(model_atoms, target_residues, model_count,
                            original_residues)
       IN  /\ LookupRaises(SelectCA(model_atoms, target_residues),
                           renumber, orig)
           /\ original_residues' = orig
    /\ in_model' = FALSE
    /\ pc' = "aborted"
    /\ error' = "lookup"
    /\ output_file' = Written(output_lines)
    /\ UNCHANGED <<settings, log_file, output_lines, model_atoms, model_count>>

\* line 71 raises ValueError: the function is left before any file is opened
ModelEndLookupError(line) ==
    /\ AtModelEnd(line)
    /\ ~SelectRaises(model_atoms)
    /\ LET orig == Captured(model_atoms, target_residues, model_count,
                            original_residues)
       IN  /\ LookupRaises(SelectCA(model_atoms, target_residues),
                           renumber, orig)
           /\ original_residues' = orig
    /\ in_model' = FALSE
    /\ pc' = "aborted"
    /\ error' = "lookup"
    /\ UNCHANGED <<settings, files, output_lines, model_atoms, model_count>>

\* lines 93-96
BufferAtom(line) ==
    /\ Take(line)
    /\ ~IsPreamble(line) /\ ~IsModelStart(line) /\ ~IsModelEnd(line)
    /\ in_model /\ IsAtomOrTer(line)
    /\ model_atoms' = Append(model_atoms, line)
    /\ UNCHANGED <<settings, files, output_lines, in_model,
                   original_residues, model_count, pc, error>>

\* drops the lines it should pass through
PassInside_Drop(line) ==
    /\ Take(line)
    /\ ~IsPreamble(line) /\ ~IsModelStart(line) /\ ~IsModelEnd(line)
    /\ in_model /\ ~IsAtomOrTer(line)
    /\ UNCHANGED <<settings, files, output_lines, in_model, model_atoms,
                   original_residues, model_count, pc, error>>

\* lines 97-100
PassInside(line) ==
    /\ Take(line)
    /\ ~IsPreamble(line) /\ ~IsModelStart(line) /\ ~IsModelEnd(line)
    /\ in_model /\ ~IsAtomOrTer(line)
    /\ output_lines' = IF ~IsPreamble(line) THEN Append(output_lines, line)
                       ELSE output_lines
    /\ UNCHANGED <<settings, files, in_model, model_atoms,
                   original_residues, model_count, pc, error>>

\* buffers ATOM/TER lines outside a model as if they were inside one
PassOutside_Buffered(line) ==
    /\ Take(line)
    /\ ~IsPreamble(line) /\ ~IsModelStart(line) /\ ~IsModelEnd(line)
    /\ ~in_model
    /\ IF IsAtomOrTer(line)
       THEN /\ model_atoms' = Append(model_atoms, line)
            /\ output_lines' = output_lines
       ELSE /\ output_lines' = Append(output_lines, line)
            /\ model_atoms' = model_atoms
    /\ UNCHANGED <<settings, files, in_model,
                   original_residues, model_count, pc, error>>

\* lines 101-104
PassOutside(line) ==
    /\ Take(line)
    /\ ~IsPreamble(line) /\ ~IsModelStart(line) /\ ~IsModelEnd(line)
    /\ ~in_model
    /\ output_lines' = IF ~IsPreamble(line) THEN Append(output_lines, line)
                       ELSE output_lines
    /\ UNCHANGED <<settings, files, in_model, model_atoms,
                   original_residues, model_count, pc, error>>

\* lines 106-108, reached when the file has no further line
WriteOutput ==
    /\ pc = "loop"
    /\ output_file' = Written(output_lines)
    /\ pc' = "write_log"
    /\ UNCHANGED <<settings, pdb_lines, log_file, output_lines, in_model,
                   model_atoms, original_residues, model_count, error>>

\* writes the residue order only when renumbering
WriteLog_OnlyRenum ==
    /\ pc = "write_log"
    /\ log_file' = Written(IF renumber
                           THEN [k \in 1..Len(original_residues) |->
                                    Str(original_residues[k]) \o "\n"]
                           ELSE <<>>)
    /\ pc' = "done"
    /\ UNCHANGED <<settings, pdb_lines, output_file, output_lines, in_model,
                   model_atoms, original_residues, model_count, error>>

\* lines 110-114
WriteLog ==
    /\ pc = "write_log"
    /\ log_file' = Written([k \in 1..Len(original_residues) |->
                               Str(original_residues[k]) \o "\n"])
    /\ pc' = "done"
    /\ UNCHANGED <<settings, pdb_lines, output_file, output_lines, in_model,
                   model_atoms, original_residues, model_count, error>>

Next ==
    \/ \E line \in Lines : SkipPreamble(line)
    \/ \E line \in Lines : ModelStart(line)
    \/ \E line \in Lines : ModelEnd(line)
    \/ \E line \in Lines : ModelEndParseError(line)
    \/ \E line \in Lines : ModelEndLookupError(line)
    \/ \E line \in Lines : BufferAtom(line)
    \/ \E line \in Lines : PassInside(line)
    \/ \E line \in Lines : PassOutside(line)
    \/ WriteOutput
    \/ WriteLog

Spec == Init /\ [][Next]_vars

(***************************************************************************)
(* A whole run as a function of the file's text, for running the filter on *)
(* a file it has written: writelines concatenates the entries of           *)
(* output_lines, readlines cuts the text after every newline, and the loop *)
(* treats each line as the actions above do.                               *)
(***************************************************************************)
RECURSIVE Join(_)
\* f.writelines(output_lines), lines 107-108
Join(ls) == IF ls = <<>> THEN "" ELSE Head(ls) \o Join(Tail(ls))

RECURSIVE NewlineAt(_, _)
\* position of the first newline of s at or after position i, 0 if none
NewlineAt(s, i) ==
    IF i > Len(s) THEN 0
    ELSE IF SubSeq(s, i, i) = "\n" THEN i
    ELSE NewlineAt(s, i + 1)

RECURSIVE ReadLines(_)
\* f.readlines(), lines 13-14: every line keeps its newline, a last line
\* without one is kept as it is
ReadLines(text) ==
    IF text = "" THEN <<>>
    ELSE LET n == NewlineAt(text, 1)
         IN  IF n = 0 THEN <<text>>
             ELSE <<SubSeq(text, 1, n)>>
                  \o ReadLines(SubSeq(text, n + 1, Len(text)))

RunInit ==
    [output_lines |-> <<>>, in_model |-> FALSE, model_atoms |-> <<>>,
     original_residues |-> <<>>, model_count |-> 0, error |-> "none"]

\* one iteration of the loop of line 22
RunStep(st, line, target, renum) ==
    IF st.error # "none" \/ IsPreamble(line) THEN st
    ELSE IF IsModelStart(line)
    THEN [st EXCEPT !.in_model = TRUE, !.model_atoms = <<>>,
                    !.model_count = @ + 1,
                    !.output_lines = Append(@, line)]
    ELSE IF IsModelEnd(line)
    THEN IF SelectRaises(st.model_atoms)
         THEN [st EXCEPT !.in_model = FALSE, !.error = "parse"]
         ELSE LET orig == Captured(st.model_atoms, target, st.model_count,
                                   st.original_residues)
              IN  IF LookupRaises(SelectCA(st.model_atoms, target),
                                  renum, orig)
                  THEN [st EXCEPT !.in_model = FALSE, !.error = "lookup",
                                  !.original_residues = orig]
                  ELSE [st EXCEPT !.in_model = FALSE,
                                  !.original_residues = orig,
                                  !.output_lines =
                                      Append(@ \o Finalize(st.model_atoms,
                                                           target, renum,
                                                           orig),
                                             line)]
    ELSE IF st.in_model /\ IsAtomOrTer(line)
    THEN [st EXCEPT !.model_atoms = Append(@, line)]
    ELSE [st EXCEPT !.output_lines = Append(@, line)]

RECURSIVE RunFrom(_, _, _, _)
RunFrom(st, ls, target, renum) ==
    IF ls = <<>> THEN st
    ELSE RunFrom(RunStep(st, Head(ls), target, renum), Tail(ls),
                 target, renum)

\* the text of the output file and of the log file that a run on the file
\* with the given text writes; no file is written when the run aborts
Run(text, target, renum) ==
    LET st == RunFrom(RunInit, ReadLines(text), target, renum)
    IN  IF st.error # "none"
        THEN [error |-> st.error, output |-> "", log |-> ""]
        ELSE [error |-> "none",
              output |-> Join(st.output_lines),
              log |-> Join([k \in 1..Len(st.original_residues) |->
                               Str(st.original_residues[k]) \o "\n"])]

(***************************************************************************)
(* Vocabulary of the properties: record kinds by tag, the finalizer's      *)
(* contribution to the output at one ENDMDL, and the atoms of the buffer   *)
(* that pass the alpha-carbon-and-filter test.                             *)
(***************************************************************************)
PreambleTags == {"REMARK", "TITLE", "CRYST1"}

HasPreambleTag(l) == \E t \in PreambleTags : StartsWith(l, t)

AtomTag(l) == StartsWith(l, "ATOM")

TerTag(l) == StartsWith(l, "TER")

\* ModelStart, ModelEnd or Other, in the classifier's priority order
Structural(l) ==
    /\ ~HasPreambleTag(l)
    /\ \/ StartsWith(l, "MODEL")
       \/ StartsWith(l, "ENDMDL")
       \/ (~AtomTag(l) /\ ~TerTag(l))

OtherKind(l) ==
    /\ Structural(l) /\ ~StartsWith(l, "MODEL") /\ ~StartsWith(l, "ENDMDL")

\* an ENDMDL line is being processed and the finalizer does not raise
FinalizedStep ==
    /\ pc = "loop" /\ pc' = "loop"
    /\ Len(pdb_lines') = Len(pdb_lines) + 1
    /\ StartsWith(pdb_lines'[Len(pdb_lines')], "ENDMDL")

\* what the step appended to the output before the ENDMDL line itself
Emitted == SubSeq(output_lines', Len(output_lines) + 1, Len(output_lines') - 1)

EmittedAtoms == SelectSeq(Emitted, AtomTag)

SerialOf(l) == IntOf(Strip(Slice(l, 6, 11)))

ResidOf(l) == IntOf(Strip(Slice(l, 22, 26)))

Qualifies(l) ==
    /\ AtomTag(l)
    /\ Strip(Slice(l, 12, 16)) = "CA"
    /\ IntOk(Strip(Slice(l, 22, 26)))
    /\ \A S \in target_residues : ResidOf(l) \in S

QualIdx(atoms) == {j \in 1..Len(atoms) : Qualifies(atoms[j])}

\* index in the buffer of the r-th qualifying atom
NthQual(atoms, r) ==
    CHOOSE j \in QualIdx(atoms) :
        Cardinality({q \in QualIdx(atoms) : q <= j}) = r

\* out is a rewrite of src: same tag, same atom name, residue name and chain,
\* and the same residue ID when residues are not renumbered
Derived(out, src) ==
    /\ Slice(out, 0, 6) = Slice(src, 0, 6)
    /\ Slice(out, 11, 22) = Slice(src, 11, 22)
    /\ (~renumber => IntOk(Strip(Slice(out, 22, 26))) /\ ResidOf(out) = ResidOf(src))

\* every value a four-column residue field can hold
AllResidueIDs == (0 - 999)..9999

\* the state reached by processing an ENDMDL line without error
AfterModelEnd ==
    /\ pc = "loop" /\ pdb_lines # <<>>
    /\ StartsWith(pdb_lines[Len(pdb_lines)], "ENDMDL")

(***************************************************************************)
(* C1: no line of the assembled output starts with REMARK, TITLE or        *)
(* CRYST1, wherever the preamble line stood in the input, for every filter *)
(* set and renumber flag.                                                  *)
(***************************************************************************)
C1_PreambleRemoval ==
    /\ pc = "loop" =>
           \A k \in 1..Len(output_lines) : ~HasPreambleTag(output_lines[k])
    /\ \A k \in 1..Len(output_file.lines) : ~HasPreambleTag(output_file.lines[k])

\* a run that completed on a file with a preamble line inside a model
C1_Witness ==
    /\ pc = "done" /\ output_file.written
    /\ \E k \in 2..(Len(pdb_lines) - 1) :
           /\ HasPreambleTag(pdb_lines[k])
           /\ StartsWith(pdb_lines[k - 1], "MODEL")
           /\ StartsWith(pdb_lines[k + 1], "ATOM")
    /\ Len(output_file.lines) >= 4

C3_Filtering ==
    [][FinalizedStep =>
         /\ Len(EmittedAtoms) = Cardinality(QualIdx(model_atoms))
         /\ \A r \in 1..Len(EmittedAtoms) :
                Derived(EmittedAtoms[r], model_atoms[NthQual(model_atoms, r)])
         /\ target_residues = None =>
                Emitted = Finalize(model_atoms, Some(AllResidueIDs), renumber,
                                   original_residues')]_vars

\* filter {10} over CA residues [10, 20, 10] kept the two atoms of residue 10
C3_Witness ==
    /\ AfterModelEnd
    /\ target_residues = Some({10})
    /\ model_atoms = <<L_CA10, L_CA20, L_CA10>>
    /\ Len(SelectSeq(output_lines, AtomTag)) = 2

(***************************************************************************)
(* C4: in each finalized model the rewritten atoms carry the serial        *)
(* numbers 1..k in output order, whatever the renumber flag and the model, *)
(* and the synthesized TER record carries k+1.                             *)
(***************************************************************************)
C4_SerialNumbers ==
    [][FinalizedStep =>
         LET k == Len(EmittedAtoms)
         IN  /\ \A r \in 1..k :
                    /\ AtomTag(Emitted[r])
                    /\ Len(Slice(Emitted[r], 6, 11)) = 5
                    /\ IntOk(Strip(Slice(Emitted[r], 6, 11)))
                    /\ SerialOf(Emitted[r]) = r
             /\ k > 0 =>
                    /\ Len(Emitted) = k + 1
                    /\ TerTag(Emitted[k + 1])
                    /\ IntOk(Strip(Slice(Emitted[k + 1], 6, 11)))
                    /\ SerialOf(Emitted[k + 1]) = k + 1]_vars

\* the second model of a file has been finalized with two atoms and a TER
C4_Witness ==
    /\ AfterModelEnd
    /\ model_count = 2
    /\ Len(model_atoms) = 2
    /\ Len(output_lines) >= 3
    /\ TerTag(output_lines[Len(output_lines) - 1])
    /\ SerialOf(output_lines[Len(output_lines) - 1]) = 3

(***************************************************************************)
(* History of the run, read off the lines taken so far.                    *)
(***************************************************************************)
\* the lines whose processing has finished (an abort leaves the last one)
Processed ==
    IF pc = "aborted" THEN SubSeq(pdb_lines, 1, Len(pdb_lines) - 1)
    ELSE pdb_lines

StartLine(l) == ~HasPreambleTag(l) /\ StartsWith(l, "MODEL")

EndLine(l) == ~HasPreambleTag(l) /\ ~StartsWith(l, "MODEL") /\ StartsWith(l, "ENDMDL")

\* least element of a set of positions, 0 if there is none
Least(S) == IF S = {} THEN 0 ELSE CHOOSE k \in S : \A m \in S : k <= m

Greatest(S) == IF S = {} THEN 0 ELSE CHOOSE k \in S : \A m \in S : m <= k

FirstStart(ls) == Least({k \in 1..Len(ls) : StartLine(ls[k])})

FirstEnd(ls) == Least({k \in 1..Len(ls) : EndLine(ls[k])})

ResidSeq(atoms) == [k \in 1..Len(atoms) |-> ResidOf(atoms[k])]

\* residue IDs, in order, of the qualifying atoms strictly between a and b
SelectedBetween(ls, a, b) ==
    ResidSeq(SelectSeq(SubSeq(ls, a + 1, b - 1), Qualifies))

\* model #1 is the block opened by the first MODEL line; it is finalized when
\* the next MODEL or ENDMDL line after it is an ENDMDL
Model1Residues(ls) ==
    LET a == FirstStart(ls)
        b == Least({k \in (a + 1)..Len(ls) : StartLine(ls[k]) \/ EndLine(ls[k])})
    IN  IF a > 0 /\ b > 0 /\ EndLine(ls[b]) THEN SelectedBetween(ls, a, b)
        ELSE <<>>

\* what the first ENDMDL of the file finalizes: the atoms buffered since the
\* last MODEL line before it (nothing if there is none)
FirstFinalizedResidues(ls) ==
    LET e == FirstEnd(ls)
        a == Greatest({k \in 1..(e - 1) : StartLine(ls[k])})
    IN  IF a > 0 THEN SelectedBetween(ls, a, e) ELSE <<>>

StartsBeforeFirstEnd(ls) ==
    Cardinality({k \in 1..(FirstEnd(ls) - 1) : StartLine(ls[k])})

C6_ColumnPreservation ==
    [][FinalizedStep =>
         \A r \in 1..Len(EmittedAtoms) :
             LET out == EmittedAtoms[r]
                 src == model_atoms[NthQual(model_atoms, r)]
             IN  /\ Len(out) = Len(src)
                 /\ \A p \in 0..(Len(src) - 1) :
                        (p \notin 6..10 /\ p \notin 22..25) =>
                            Slice(out, p, p + 1) = Slice(src, p, p + 1)]_vars

(***************************************************************************)
(* C7: with renumbering, when a model after the first holds a selected CA  *)
(* atom whose residue ID is not in OriginalResidueOrder, the run aborts    *)
(* with a lookup failure and neither the output file nor the log file is   *)
(* written, then or later.                                                 *)
(***************************************************************************)
C7_LookupAbort ==
    [][/\ ( /\ pc = "loop" /\ renumber /\ model_count > 1
            /\ Len(pdb_lines') = Len(pdb_lines) + 1
            /\ EndLine(pdb_lines'[Len(pdb_lines')])
            /\ \A k \in 1..Len(model_atoms) :
                   (AtomTag(model_atoms[k])
                    /\ Strip(Slice(model_atoms[k], 12, 16)) = "CA")
                       => IntOk(Strip(Slice(model_atoms[k], 22, 26)))
            /\ \E j \in QualIdx(model_atoms) :
                   \A k \in 1..Len(original_residues) :
                       original_residues[k] # ResidOf(model_atoms[j]) )
          => ( /\ pc' = "aborted" /\ error' = "lookup"
               /\ output_file' = Unwritten /\ log_file' = Unwritten )
       /\ pc' = "aborted" => (output_file' = Unwritten /\ log_file' = Unwritten)
       /\ pc # "aborted"]_vars

\* model 2 held residue 20, absent from the order [10] captured in model 1
C7_Witness ==
    /\ pc = "aborted" /\ error = "lookup"
    /\ renumber /\ model_count = 2
    /\ original_residues = <<10>>
    /\ model_atoms = <<L_CA20>>
    /\ ~output_file.written /\ ~log_file.written

(***************************************************************************)
(* C8: a model whose buffer holds no atom passing the alpha-carbon-and-    *)
(* filter test contributes no rewritten atom line and no TER record, even  *)
(* when the buffer holds ATOM or TER lines: only its ENDMDL line is added. *)
(***************************************************************************)
C8_EmptySelection ==
    [][(FinalizedStep /\ QualIdx(model_atoms) = {}) =>
         output_lines' = Append(output_lines, pdb_lines'[Len(pdb_lines')])]_vars

\* a model that buffered an ATOM line was finalized to MODEL, ENDMDL alone
C8_Witness ==
    /\ AfterModelEnd
    /\ \E k \in 1..Len(model_atoms) : AtomTag(model_atoms[k])
    /\ Len(output_lines) >= 2
    /\ StartsWith(output_lines[Len(output_lines) - 1], "MODEL")
    /\ StartsWith(output_lines[Len(output_lines)], "ENDMDL")

C10_Original ==
    LET ls == Processed
    IN  FirstEnd(ls) > 0 => original_residues = FirstFinalizedResidues(ls)

(***************************************************************************)
(* C10 amended: the same, for every input in which exactly one ModelStart  *)
(* precedes the first ModelEnd.                                            *)
(***************************************************************************)
C10_Amended ==
    LET ls == Processed
    IN  (FirstEnd(ls) > 0 /\ StartsBeforeFirstEnd(ls) = 1) =>
            original_residues = FirstFinalizedResidues(ls)

\* a second model selecting residue 20 left the order [10] of model 1 alone
C10_Witness ==
    /\ AfterModelEnd
    /\ model_count = 2
    /\ StartsBeforeFirstEnd(pdb_lines) = 1
    /\ model_atoms = <<L_CA20>>
    /\ target_residues = None
    /\ original_residues = <<10>>

(***************************************************************************)
(* C11: with renumbering, a lookup failure never occurs while the first    *)
(* model is finalized; when it occurs, the model being finalized is a      *)
(* later one and holds a selected residue ID that is absent from the       *)
(* selected residue IDs of the first model.                                *)
(***************************************************************************)
\* residue IDs of the qualifying atoms of the block opened by the first MODEL
\* line, up to the next MODEL or ENDMDL line (or the end of the lines)
FirstBlockResidues(ls) ==
    LET a == FirstStart(ls)
        b == Least({k \in (a + 1)..Len(ls) : StartLine(ls[k]) \/ EndLine(ls[k])})
        e == IF b = 0 THEN Len(ls) + 1 ELSE b
    IN  IF a = 0 THEN {}
        ELSE {ResidOf(ls[k]) : k \in {m \in (a + 1)..(e - 1) : Qualifies(ls[m])}}

C11_LookupOnlyLater ==
    (pc = "aborted" /\ error = "lookup") =>
        /\ renumber
        /\ model_count # 1
        /\ \E j \in QualIdx(model_atoms) :
               ResidOf(model_atoms[j]) \notin FirstBlockResidues(pdb_lines)

(***************************************************************************)
(* C12: a ModelEnd finalizes only the lines buffered since the most recent *)
(* ModelStart: the rewritten atom lines of one finalization are no more    *)
(* than the qualifying ATOM lines read since that ModelStart and not yet   *)
(* finalized, so no input ATOM line is rewritten into the output twice     *)
(* (none at all when the ModelEnd arrives outside a model).                *)
(***************************************************************************)
\* positions of the qualifying ATOM lines read since the most recent MODEL
\* line, none if an ENDMDL line has already closed that model
OpenModelAtoms(ls) ==
    LET a == Greatest({k \in 1..Len(ls) : StartLine(ls[k])})
    IN  IF a = 0 \/ \E k \in (a + 1)..Len(ls) : EndLine(ls[k]) THEN {}
        ELSE {k \in (a + 1)..Len(ls) : Qualifies(ls[k])}

C12_FinalizeOnce ==
    [][FinalizedStep =>
          Len(EmittedAtoms) <= Cardinality(OpenModelAtoms(pdb_lines))]_vars

(***************************************************************************)
(* C13: a finalization that selects at least one atom emits, after its     *)
(* rewritten atom lines and right before the ModelEnd line, exactly one    *)
(* TER line whose residue name (columns 17-19) and chain/residue tail      *)
(* (columns 21-25) are those of the last emitted atom line; a finalization *)
(* that selects none emits no TER line; a TER line read inside a model is  *)
(* never written to the output.                                            *)
(***************************************************************************)
TerBufferedStep ==
    /\ pc = "loop" /\ pc' = "loop"
    /\ in_model
    /\ Len(pdb_lines') = Len(pdb_lines) + 1
    /\ TerTag(pdb_lines'[Len(pdb_lines')])

C13_TerRecord ==
    [][/\ FinalizedStep =>
              LET n == Len(Emitted)
              IN  IF QualIdx(model_atoms) = {}
                  THEN SelectSeq(Emitted, TerTag) = <<>>
                  ELSE /\ n >= 2
                       /\ \A k \in 1..(n - 1) : AtomTag(Emitted[k])
                       /\ TerTag(Emitted[n])
                       /\ Slice(Emitted[n], 17, 20)
                              = Slice(Emitted[n - 1], 17, 20)
                       /\ Slice(Emitted[n], 21, 26)
                              = Slice(Emitted[n - 1], 21, 26)
       /\ TerBufferedStep => output_lines' = output_lines]_vars

\* a model holding a selected atom followed by a TER line has been finalized
C13_Witness ==
    /\ AfterModelEnd
    /\ QualIdx(model_atoms) # {}
    /\ Len(model_atoms) >= 2
    /\ TerTag(model_atoms[Len(model_atoms)])
    /\ Len(output_lines) >= 3
    /\ TerTag(output_lines[Len(output_lines) - 1])
    /\ output_lines[Len(output_lines) - 1] # model_atoms[Len(model_atoms)]

(***************************************************************************)
(* C14: with renumbering disabled, the rewritten atom lines of a           *)
(* finalization carry, in order, the original residue IDs of the selected  *)
(* atoms, and the run never aborts with a lookup failure, whatever the     *)
(* original residue order holds.                                           *)
(***************************************************************************)
C14_NoRenumbering ==
    [][~renumber =>
          /\ error' # "lookup"
          /\ FinalizedStep =>
                 /\ Len(EmittedAtoms) = Cardinality(QualIdx(model_atoms))
                 /\ \A r \in 1..Len(EmittedAtoms) :
                        /\ IntOk(Strip(Slice(EmittedAtoms[r], 22, 26)))
                        /\ ResidOf(EmittedAtoms[r])
                               = ResidOf(model_atoms[NthQual(model_atoms, r)])]_vars

\* a later model whose selected residue is not in the original residue order
\* has been finalized with renumbering disabled
C14_Witness ==
    /\ AfterModelEnd
    /\ ~renumber
    /\ model_count >= 2
    /\ \E j \in QualIdx(model_atoms) :
           /\ \A k \in 1..Len(original_residues) :
                  original_residues[k] # ResidOf(model_atoms[j])
           /\ \E m \in 1..Len(output_lines) :
                  /\ AtomTag(output_lines[m])
                  /\ ResidOf(output_lines[m]) = ResidOf(model_atoms[j])

(***************************************************************************)
(* C15: no buffered data is silently dropped: when the run completes       *)
(* without error, every ATOM line read inside a model that passes the CA   *)
(* and filter test has a rewritten line in the written output, also when   *)
(* the input ends inside a model or a second ModelStart arrives before the *)
(* ModelEnd.                                                               *)
(***************************************************************************)
\* positions of the qualifying ATOM lines read inside a model: the nearest
\* MODEL or ENDMDL line before them is a MODEL line
InsideQualifying(ls) ==
    {k \in 1..Len(ls) :
        /\ Qualifies(ls[k])
        /\ LET b == Greatest({m \in 1..(k - 1) :
                                  StartLine(ls[m]) \/ EndLine(ls[m])})
           IN  b > 0 /\ StartLine(ls[b])}

C15_NoSilentDrop ==
    pc = "done" =>
        \A k \in InsideQualifying(pdb_lines) :
            \E m \in 1..Len(output_file.lines) :
                /\ AtomTag(output_file.lines[m])
                /\ Derived(output_file.lines[m], pdb_lines[k])

(***************************************************************************)
(* C16: an ATOM or TER line read outside a model is appended to the output *)
(* verbatim at that point; it is not buffered, filtered or renumbered, and *)
(* it leaves the original residue order as it was.                         *)
(***************************************************************************)
OutsideAtomStep ==
    /\ pc = "loop"
    /\ ~in_model
    /\ Len(pdb_lines') = Len(pdb_lines) + 1
    /\ AtomTag(pdb_lines'[Len(pdb_lines')]) \/ TerTag(pdb_lines'[Len(pdb_lines')])

C16_OutsideVerbatim ==
    [][OutsideAtomStep =>
          /\ output_lines' = Append(output_lines, pdb_lines'[Len(pdb_lines')])
          /\ model_atoms' = model_atoms
          /\ original_residues' = original_residues
          /\ ~in_model'
          /\ pc' = "loop" /\ error' = "none"]_vars

\* a CA atom that the filter would remove was read outside a model, after a
\* model had been finalized, and stands last in the output unchanged
C16_Witness ==
    /\ pc = "loop"
    /\ ~in_model
    /\ model_count >= 1
    /\ pdb_lines # <<>>
    /\ output_lines # <<>>
    /\ AtomTag(pdb_lines[Len(pdb_lines)])
    /\ Strip(Slice(pdb_lines[Len(pdb_lines)], 12, 16)) = "CA"
    /\ ~Qualifies(pdb_lines[Len(pdb_lines)])
    /\ output_lines[Len(output_lines)] = pdb_lines[Len(pdb_lines)]

(***************************************************************************)
(* C17: idempotence.  For an input whose MODEL and ENDMDL lines alternate  *)
(* (every ModelStart is closed by exactly one ModelEnd before the next     *)
(* opens) and with renumbering disabled, running the filter again on the   *)
(* file it wrote, with the same target residue set, completes and writes   *)
(* the same output file and the same log file.                             *)
(***************************************************************************)
Brackets(ls) == SelectSeq(ls, LAMBDA l : StartLine(l) \/ EndLine(l))

WellBracketed(ls) ==
    LET b == Brackets(ls)
    IN  /\ Len(b) % 2 = 0
        /\ \A k \in 1..Len(b) : IF k % 2 = 1 THEN StartLine(b[k])
                                ELSE EndLine(b[k])

C17_Idempotent ==
    (pc = "done" /\ ~renumber /\ WellBracketed(pdb_lines)) =>
        LET again == Run(Join(output_file.lines), target_residues, renumber)
        IN  /\ again.error = "none"
            /\ again.output = Join(output_file.lines)
            /\ again.log = Join(log_file.lines)

\* the same statement for files all of whose ATOM lines reach column 26
FullWidth(ls) == \A k \in 1..Len(ls) : AtomTag(ls[k]) => Len(ls[k]) > 26

IdempotentFullWidth ==
    (pc = "done" /\ ~renumber /\ WellBracketed(pdb_lines)
       /\ FullWidth(pdb_lines)) =>
        LET again == Run(Join(output_file.lines), target_residues, renumber)
        IN  /\ again.error = "none"
            /\ again.output = Join(output_file.lines)
            /\ again.log = Join(log_file.lines)

\* a run is the loop of the actions: on every completed run the function
\* gives the files the actions wrote
RunAgrees ==
    pc = "done" =>
        LET r == Run(Join(pdb_lines), target_residues, renumber)
        IN  /\ r.error = "none"
            /\ r.output = Join(output_file.lines)
            /\ r.log = Join(log_file.lines)
====
